---------------------------- MODULE Spec2Model ----------------------------
(***************************************************************************)
(* A model of pydexdump: the little-endian byte stream of                  *)
(* dexdump/__init__.py (ByteStream) and the DEX parser of                  *)
(* dexdump/parsing.py (LazyList, DexParser).                               *)
(*                                                                         *)
(* The sources are Python 2 (parsing.py line 460 is a print statement).    *)
(* A file is the sequence of its bytes; a stream position is the 0-based   *)
(* offset file.tell() reports.  Every reader below returns a record        *)
(* [err, val, pos]: err is "none" or the name of the exception the Python  *)
(* code raises, pos the position the file is left at.                      *)
(***************************************************************************)
EXTENDS Integers, Sequences, FiniteSets, TLC

VARIABLES
    data,           \* ByteStream under test: the bytes of its file
    cursor,         \* ByteStream under test: self._file.tell()
    call,           \* ByteStream under test: the method applied and the position it started at
    ret,            \* ByteStream under test: what the method returned / raised
    parsers,        \* the DexParser objects: file, stream position, header, id tables
    clsSize,        \* the class attribute _size LazyList sets on each record class
    itemTypeIds,    \* the class attribute DexParser.Item._type_ids
    itemStringIds,  \* the class attribute DexParser.Item._string_ids
    last,           \* the last call made on a parser: arguments, outcome, seeks
    ncalls,         \* the number of method calls made on the parsers so far
    defaultDescriptors  \* the list object that is find_junit3_tests' default argument

streamVars == <<data, cursor, call, ret>>

parserVars == <<parsers, clsSize, itemTypeIds, itemStringIds, last, ncalls, defaultDescriptors>>

vars ==
    <<data, cursor, call, ret, parsers, clsSize, itemTypeIds, itemStringIds, last, ncalls,
      defaultDescriptors>>

-----------------------------------------------------------------------------
(* Bit operations on naturals, as Python's & | << compute them.            *)

RECURSIVE BitAnd(_, _)
BitAnd(a, b) ==
    IF a = 0 \/ b = 0 THEN 0
    ELSE (IF a % 2 = 1 /\ b % 2 = 1 THEN 1 ELSE 0) + 2 * BitAnd(a \div 2, b \div 2)

RECURSIVE BitOr(_, _)
BitOr(a, b) ==
    IF a = 0 THEN b
    ELSE IF b = 0 THEN a
    ELSE (IF a % 2 = 1 \/ b % 2 = 1 THEN 1 ELSE 0) + 2 * BitOr(a \div 2, b \div 2)

RECURSIVE Pow2(_)
Pow2(n) == IF n = 0 THEN 1 ELSE 2 * Pow2(n - 1)

Min(a, b) == IF a < b THEN a ELSE b

\* n bytes of value b
Filled(n, b) == [i \in 1..n |-> b]

(* Python integers are unbounded; a LEB128 result can need 35 bits.  Such  *)
(* a value is kept in two limbs: hi * 2^28 + lo, with lo < 2^28.           *)
LIMB == 28

Big(hi, lo) == [hi |-> hi, lo |-> lo]

\* result | (chunk << shift), for a chunk below 2^7 and a shift that is a multiple of 7
OrShifted(r, chunk, shift) ==
    IF shift < LIMB
    THEN Big(r.hi, BitOr(r.lo, chunk * Pow2(shift)))
    ELSE Big(BitOr(r.hi, chunk * Pow2(shift - LIMB)), r.lo)

-----------------------------------------------------------------------------
(* ByteStream: the primitive readers.                                      *)

Res(e, v, p) == [err |-> e, val |-> v, pos |-> p]

\* self._file.read(n): the bytes from pos, fewer at the end of the file
file_read(f, pos, n) ==
    LET end == IF pos >= Len(f) THEN pos ELSE Min(pos + n, Len(f))
    IN  Res("none", SubSeq(f, pos + 1, end), end)

\* read_byte: ord(self._file.read(1)[0])
read_byte(f, pos) ==
    LET r == file_read(f, pos, 1)
    IN  IF r.val = <<>> THEN Res("IndexError", 0, r.pos)
        ELSE Res("none", r.val[1], r.pos)

\* read_bytes: bytes(self._file.read(byte_count)), short at the end of the file
read_bytes(f, pos, byte_count) == file_read(f, pos, byte_count)

\* struct.unpack of a little-endian signed 32-bit / 16-bit integer
S32(b) == b[1] + 256 * b[2] + 65536 * b[3] + 16777216 * (IF b[4] < 128 THEN b[4] ELSE b[4] - 256)

S16(b) == b[1] + 256 * (IF b[2] < 128 THEN b[2] ELSE b[2] - 256)

\* read_short: struct.unpack("<h", self._file.read(2)); a short read raises struct.error
read_short(f, pos) ==
    LET r == file_read(f, pos, 2)
    IN  IF Len(r.val) # 2 THEN Res("struct.error", 0, r.pos) ELSE Res("none", S16(r.val), r.pos)

\* read_int: struct.unpack("<i", self._file.read(4))
read_int(f, pos) ==
    LET r == file_read(f, pos, 4)
    IN  IF Len(r.val) # 4 THEN Res("struct.error", 0, r.pos) ELSE Res("none", S32(r.val), r.pos)

\* read_ints: struct.unpack("<%di" % count, self._file.read(count * 4))
read_ints(f, pos, count) ==
    LET r == file_read(f, pos, count * 4)
    IN  IF Len(r.val) # count * 4 THEN Res("struct.error", <<>>, r.pos)
        ELSE Res("none", [i \in 1..count |-> S32(SubSeq(r.val, 4 * i - 3, 4 * i))], r.pos)

\* read_leb128: the loop of lines 46-53, entered with the running result and shift
RECURSIVE leb128_loop(_, _, _, _)
leb128_loop(f, pos, result, shift) ==
    LET b == read_byte(f, pos)
    IN  IF b.err # "none" THEN Res(b.err, result, b.pos)
        ELSE LET current == b.val
                 result2 == OrShifted(result, BitAnd(current, 127), shift)
             IN  IF BitAnd(current, 128) = 0 THEN Res("none", result2, b.pos)
                 ELSE IF shift + 7 >= 35
                      THEN Res("Exception: LEB128 sequence invalid", result2, b.pos)
                      ELSE leb128_loop(f, b.pos, result2, shift + 7)

\* A plausible slip in read_leb128: the length check made one byte too early.
read_leb128_early(f, pos) ==
    LET r == leb128_loop(f, pos, Big(0, 0), 0)
    IN  IF r.err = "none" /\ r.pos - pos = 5
        THEN Res("Exception: LEB128 sequence invalid", r.val, r.pos)
        ELSE r

read_leb128(f, pos) == leb128_loop(f, pos, Big(0, 0), 0)

CHUNK == 128

\* chunk.split(chr(0))[0]: the bytes of a chunk before its first NUL
before_nul(s) ==
    LET nuls == {i \in 1..Len(s) : s[i] = 0}
    IN  IF nuls = {} THEN s
        ELSE SubSeq(s, 1, (CHOOSE i \in nuls : \A j \in nuls : i <= j) - 1)

\* read_string: the loop of lines 63-70, entered with one chunk already read
RECURSIVE string_loop(_, _, _, _)
string_loop(f, pos, result, byte_data) ==
    IF byte_data = <<>> THEN Res("none", result, pos)
    ELSE LET delta == before_nul(byte_data)
         IN  IF Len(byte_data) = CHUNK /\ Len(delta) = CHUNK
             THEN LET nxt == file_read(f, pos, CHUNK)
                  IN  string_loop(f, nxt.pos, result \o delta, nxt.val)
             ELSE Res("none", result \o delta, pos)

\* read_string: lines 60-73; the final seek is to start + len(result)
read_string(f, pos) ==
    LET first == file_read(f, pos, CHUNK)
        r == string_loop(f, first.pos, <<>>, first.val)
    IN  Res("none", r.val, pos + Len(r.val))

-----------------------------------------------------------------------------
(* DEX files as bytes.  The layout written here is the one the decoders    *)
(* of parsing.py read back: a 112-byte header, the id tables, then the     *)
(* string data, class data and annotation data the tables point to.        *)

LE32(n) == <<n % 256, (n \div 256) % 256, (n \div 65536) % 256, (n \div 16777216) % 256>>

LE16(n) == <<n % 256, (n \div 256) % 256>>

RECURSIVE ULEB(_)
ULEB(n) == IF n < 128 THEN <<n>> ELSE <<128 + (n % 128)>> \o ULEB(n \div 128)

RECURSIVE Flatten(_)
Flatten(ss) == IF ss = <<>> THEN <<>> ELSE Head(ss) \o Flatten(Tail(ss))

RECURSIVE SumSeq(_)
SumSeq(s) == IF s = <<>> THEN 0 ELSE Head(s) + SumSeq(Tail(s))

\* the sum of the first k entries of a sequence of numbers
SumBefore(s, i) == SumSeq(SubSeq(s, 1, i - 1))

HEADER_SIZE == 112
EXPECTED_ENDIAN_TAG == 305419896        \* 0x12345678
SWAPPED_ENDIAN_TAG == S32(<<18, 52, 86, 120>>)     \* 0x78563412: the tag's bytes read the other way round
NO_INDEX == -1                          \* 0xFFFFFFFF read as a signed int

MagicBytes == <<100, 101, 120, 10, 48, 51, 53, 0>>      \* "dex\n035\0"

\* the header: magic, checksum, signature, six ints, seven (size, offset) pairs
HeaderBytes(magic, endian, pairs) ==
    magic \o LE32(0) \o Filled(20, 170)
          \o LE32(0) \o LE32(HEADER_SIZE) \o LE32(endian) \o LE32(0) \o LE32(0) \o LE32(0)
          \o Flatten([i \in 1..7 |-> LE32(pairs[i][1]) \o LE32(pairs[i][2])])

sTestCase == <<76, 106, 117, 110, 105, 116, 47, 102, 114, 97, 109, 101, 119, 111, 114, 107, 47, 84, 101, 115, 116, 67, 97, 115, 101, 59>>   \* "Ljunit/framework/TestCase;"
sFooTest == <<76, 99, 111, 109, 47, 101, 120, 47, 70, 111, 111, 84, 101, 115, 116, 59>>   \* "Lcom/ex/FooTest;"
sBarTest == <<76, 99, 111, 109, 47, 101, 120, 47, 66, 97, 114, 84, 101, 115, 116, 59>>   \* "Lcom/ex/BarTest;"
sJunitTest == <<76, 111, 114, 103, 47, 106, 117, 110, 105, 116, 47, 84, 101, 115, 116, 59>>   \* "Lorg/junit/Test;"
sInit == <<60, 105, 110, 105, 116, 62>>   \* "<init>"
sHelperBar == <<104, 101, 108, 112, 101, 114, 66, 97, 114>>   \* "helperBar"
sTestFoo == <<116, 101, 115, 116, 70, 111, 111>>   \* "testFoo"
sTestBaz == <<116, 101, 115, 116, 66, 97, 122>>   \* "testBaz"
sTestQux == <<116, 101, 115, 116, 81, 117, 120>>   \* "testQux"
\* "Landroid/test/InstrumentationTestCase;"
sInstrumentationTestCase ==
    <<76, 97, 110, 100, 114, 111, 105, 100, 47, 116, 101, 115, 116, 47, 73, 110,
     115, 116, 114, 117, 109, 101, 110, 116, 97, 116, 105, 111, 110, 84, 101, 115,
     116, 67, 97, 115, 101, 59>>
sTestPrefix == <<116, 101, 115, 116>>   \* "test"

(* A DEX is described by its tables:                                       *)
(*   strings  the string payloads                                          *)
(*   types    per type, the index of its descriptor string                 *)
(*   methods  per method id, [cls: type index, name: string index]         *)
(*   classes  per class def, [cls, sup: type indices (sup NO_INDEX for     *)
(*            none), data: its class data or NoData, annos: its annotated  *)
(*            methods, each [method: method index, type: type index]]      *)
(* Indices are 0-based, as in the file.                                    *)

NoData == [has |-> FALSE, sf |-> <<>>, inf |-> <<>>, dm |-> <<>>, vm |-> <<>>]

\* class data: the index_diff of each static field, instance field, direct and virtual method
ClassData(sf, inf, dm, vm) == [has |-> TRUE, sf |-> sf, inf |-> inf, dm |-> dm, vm |-> vm]

ClassDesc(cls, sup, cdata, annos) == [cls |-> cls, sup |-> sup, data |-> cdata, annos |-> annos]

Dex(strings, types, methods, classes) ==
    [strings |-> strings, types |-> types, methods |-> methods, classes |-> classes]

StringIdsOff(d) == HEADER_SIZE
TypeIdsOff(d) == StringIdsOff(d) + 4 * Len(d.strings)
MethodIdsOff(d) == TypeIdsOff(d) + 4 * Len(d.types)
ClassDefsOff(d) == MethodIdsOff(d) + 8 * Len(d.methods)
StringDataBase(d) == ClassDefsOff(d) + 32 * Len(d.classes)

\* a string data item: the utf16 length as LEB128, the payload, a NUL
StringDataItem(str) == ULEB(Len(str)) \o str \o <<0>>

StringDataLens(d) == [i \in 1..Len(d.strings) |-> Len(StringDataItem(d.strings[i]))]
StringDataOff(d, i) == StringDataBase(d) + SumBefore(StringDataLens(d), i)

EncodedFieldBytes(diff) == ULEB(diff) \o ULEB(1)
EncodedMethodBytes(diff) == ULEB(diff) \o ULEB(1) \o ULEB(0)

ClassDataBytes(cd) ==
    IF ~cd.has THEN <<>>
    ELSE ULEB(Len(cd.sf)) \o ULEB(Len(cd.inf)) \o ULEB(Len(cd.dm)) \o ULEB(Len(cd.vm))
         \o Flatten([i \in 1..Len(cd.sf) |-> EncodedFieldBytes(cd.sf[i])])
         \o Flatten([i \in 1..Len(cd.inf) |-> EncodedFieldBytes(cd.inf[i])])
         \o Flatten([i \in 1..Len(cd.dm) |-> EncodedMethodBytes(cd.dm[i])])
         \o Flatten([i \in 1..Len(cd.vm) |-> EncodedMethodBytes(cd.vm[i])])

ClassDataBase(d) == StringDataBase(d) + SumSeq(StringDataLens(d))
ClassDataLens(d) == [i \in 1..Len(d.classes) |-> Len(ClassDataBytes(d.classes[i].data))]
ClassDataOff(d, i) ==
    IF d.classes[i].data.has THEN ClassDataBase(d) + SumBefore(ClassDataLens(d), i) ELSE 0

(* The annotations of a class with n annotated methods, written at base:   *)
(* the directory (16 bytes, then n method records), n annotation sets of   *)
(* one entry each (8 bytes), n annotation items (3 bytes: visibility,      *)
(* type_index, size 0).                                                    *)
AnnotationsBytes(annos, base) ==
    LET n == Len(annos)
        sets == base + 16 + 8 * n
        items == sets + 8 * n
    IN  IF n = 0 THEN <<>>
        ELSE LE32(0) \o LE32(0) \o LE32(n) \o LE32(0)
             \o Flatten([j \in 1..n |-> LE32(annos[j].method) \o LE32(sets + 8 * (j - 1))])
             \o Flatten([j \in 1..n |-> LE32(1) \o LE32(items + 3 * (j - 1))])
             \o Flatten([j \in 1..n |-> <<1>> \o ULEB(annos[j].type) \o ULEB(0)])

AnnotationsBase(d) == ClassDataBase(d) + SumSeq(ClassDataLens(d))
AnnotationsLens(d) ==
    [i \in 1..Len(d.classes) |->
        IF d.classes[i].annos = <<>> THEN 0 ELSE 16 + 19 * Len(d.classes[i].annos)]
AnnotationsOff(d, i) ==
    IF d.classes[i].annos = <<>> THEN 0
    ELSE AnnotationsBase(d) + SumBefore(AnnotationsLens(d), i)

ClassDefBytes(d, i) ==
    LET c == d.classes[i]
    IN  LE32(c.cls) \o LE32(1) \o LE32(c.sup) \o LE32(0) \o LE32(NO_INDEX)
        \o LE32(AnnotationsOff(d, i)) \o LE32(ClassDataOff(d, i)) \o LE32(0)

\* a table's header pair: offset 0 when the table is empty
TablePair(n, off) == IF n = 0 THEN <<0, 0>> ELSE <<n, off>>

DexBytes(d) ==
    HeaderBytes(MagicBytes, EXPECTED_ENDIAN_TAG,
                << TablePair(Len(d.strings), StringIdsOff(d)),
                   TablePair(Len(d.types), TypeIdsOff(d)),
                   <<0, 0>>, <<0, 0>>,
                   TablePair(Len(d.methods), MethodIdsOff(d)),
                   TablePair(Len(d.classes), ClassDefsOff(d)),
                   <<0, StringDataBase(d)>> >>)
    \o Flatten([i \in 1..Len(d.strings) |-> LE32(StringDataOff(d, i))])
    \o Flatten([i \in 1..Len(d.types) |-> LE32(d.types[i])])
    \o Flatten([i \in 1..Len(d.methods) |->
                    LE16(d.methods[i].cls) \o LE16(0) \o LE32(d.methods[i].name)])
    \o Flatten([i \in 1..Len(d.classes) |-> ClassDefBytes(d, i)])
    \o Flatten([i \in 1..Len(d.strings) |-> StringDataItem(d.strings[i])])
    \o Flatten([i \in 1..Len(d.classes) |-> ClassDataBytes(d.classes[i].data)])
    \o Flatten([i \in 1..Len(d.classes) |->
                    AnnotationsBytes(d.classes[i].annos, AnnotationsOff(d, i))])

-----------------------------------------------------------------------------
(* The files the parser is run on.                                         *)

MaxClasses == 2         \* most class defs (and type ids, and method ids) in a generated file

MethodId(cls, name) == [cls |-> cls, name |-> name]
Annotated(method, type) == [method |-> method, type |-> type]

\* one class FooTest extends junit.framework.TestCase; virtual methods helperBar, testFoo
Junit3Seed ==
    Dex(<<sTestCase, sFooTest, sInit, sHelperBar, sTestFoo>>,
        <<0, 1>>,
        <<MethodId(1, 2), MethodId(1, 3), MethodId(1, 4)>>,
        <<ClassDesc(1, 0, ClassData(<<>>, <<>>, <<0>>, <<1, 1>>), <<>>)>>)

\* FooTest extends TestCase, BarTest extends FooTest; the class defs in either order
ChainClasses(fooFirst) ==
    LET foo == ClassDesc(1, 0, ClassData(<<>>, <<>>, <<>>, <<0>>), <<>>)
        bar == ClassDesc(2, 1, ClassData(<<>>, <<>>, <<>>, <<1>>), <<>>)
    IN  IF fooFirst THEN <<foo, bar>> ELSE <<bar, foo>>

ChainSeed(fooFirst) ==
    Dex(<<sTestCase, sFooTest, sBarTest, sTestFoo, sTestBaz>>,
        <<0, 1, 2>>,
        <<MethodId(1, 3), MethodId(2, 4)>>,
        ChainClasses(fooFirst))

\* FooTest with helperBar, and testBaz and testQux both annotated @org.junit.Test
Junit4Seed ==
    Dex(<<sFooTest, sJunitTest, sHelperBar, sTestBaz, sTestQux>>,
        <<0, 1>>,
        <<MethodId(0, 2), MethodId(0, 3), MethodId(0, 4)>>,
        <<ClassDesc(0, NO_INDEX, ClassData(<<>>, <<>>, <<>>, <<0, 1, 1>>),
                    <<Annotated(1, 1), Annotated(2, 1)>>)>>)

\* FooTest extends TestCase and has no class data (class_data_offset 0)
NoDataSeed ==
    Dex(<<sTestCase, sFooTest>>, <<0, 1>>, <<>>, <<ClassDesc(1, 0, NoData, <<>>)>>)

SeedNames == {"junit3", "chainFooBar", "chainBarFoo", "junit4", "noData"}

SeedDex(name) ==
    CASE name = "junit3" -> Junit3Seed
      [] name = "chainFooBar" -> ChainSeed(TRUE)
      [] name = "chainBarFoo" -> ChainSeed(FALSE)
      [] name = "junit4" -> Junit4Seed
      [] name = "noData" -> NoDataSeed

(* Generated files with an empty string table: nt type ids, nc method ids  *)
(* and nc class defs with superclass index sup.  shape "plain": no class   *)
(* data, no annotations; "data": every class has fields and methods;       *)
(* "anno": every class has one annotated method.                           *)
BareShapes == {"plain", "data", "anno"}

\* the superclass index of the classes of a shape: a class with data extends type 0
ShapeSuper(shape) == IF shape = "data" THEN 0 ELSE NO_INDEX

BareDex(nt, nc, sup, shape) ==
    Dex(<<>>,
        [i \in 1..nt |-> 0],
        [i \in 1..nc |-> MethodId(0, 0)],
        [i \in 1..nc |->
            ClassDesc(IF nt = 0 THEN 0 ELSE (i - 1) % nt, sup,
                      IF shape = "data" THEN ClassData(<<0>>, <<0, 1>>, <<0>>, <<0, 1>>)
                                        ELSE NoData,
                      IF shape = "anno" THEN <<Annotated(0, 0)>> ELSE <<>>)])

(* A file is named by a descriptor [kind, name, p]:                        *)
(*   "seed"  one of the named files above                                  *)
(*   "bare"  BareDex(p[1], p[2], p[3], name)                               *)
(*   "hdr"   a header alone, all table sizes 0: magic byte p[1] (1..8, 0   *)
(*           for none) replaced by p[2], endian tag p[3], every table      *)
(*           offset p[4], cut to p[5] bytes                                *)
Fd(kind, name, p) == [kind |-> kind, name |-> name, p |-> p]

SeedFiles == {Fd("seed", n, <<>>) : n \in SeedNames}

BareFiles ==
    {Fd("bare", "plain", <<0, 0, NO_INDEX>>)}
    \cup {Fd("bare", sh, <<n, n, ShapeSuper(sh)>>) : sh \in BareShapes, n \in 1..MaxClasses}

CorruptMagic(at, b) == [i \in 1..8 |-> IF i = at THEN b ELSE MagicBytes[i]]

HdrBytes(p) ==
    SubSeq(HeaderBytes(CorruptMagic(p[1], p[2]), p[3], [i \in 1..7 |-> <<0, p[4]>>]), 1, p[5])

\* the replaced magic byte: 0 or 255, or 1 where the magic itself has a 0
BadMagicByte == {0, 1, 255}

EndianTags == {EXPECTED_ENDIAN_TAG, SWAPPED_ENDIAN_TAG, 0, NO_INDEX}

\* lengths a header is cut to: inside the magic, before and after the endian tag,
\* inside the (size, offset) pairs, complete
HeaderCuts == {0, 3, 7, 8, 32, 44, 56, 60, HEADER_SIZE - 1, HEADER_SIZE}

HdrFiles ==
    {Fd("hdr", "", <<at, b, e, off, n>>) :
        at \in 0..8, b \in BadMagicByte, e \in EndianTags, off \in {0, HEADER_SIZE}, n \in HeaderCuts}

\* the complete headers with good magic and endian tag: DEX files with no tables at all
EmptyDexFiles ==
    {Fd("hdr", "", <<0, 0, EXPECTED_ENDIAN_TAG, off, HEADER_SIZE>>) : off \in {0, HEADER_SIZE}}

SeedBytes == [n \in SeedNames |-> DexBytes(SeedDex(n))]

FileBytes(fd) ==
    CASE fd.kind = "seed" -> SeedBytes[fd.name]
      [] fd.kind = "bare" -> DexBytes(BareDex(fd.p[1], fd.p[2], fd.p[3], fd.name))
      [] fd.kind = "hdr" -> HdrBytes(fd.p)

-----------------------------------------------------------------------------
(* The parser's world.  The operators below take and return a world w:     *)
(*   w.par[p]  parser p: [state, file, pos, hdr, ids, err]; pos is the     *)
(*             position of its ByteStream                                  *)
(*   w.size    clazz._size per record class (NoSize: attribute not set)    *)
(*   w.tids, w.sids   DexParser.Item._type_ids / _string_ids: a reference  *)
(*             to the table object last stored there                       *)
(*   w.log     the seeks made so far in the running call, <<parser, pos>>  *)
(*   w.list    the list object the running call was handed as descriptors, *)
(*             which find_classes_directly_inherited_from appends to       *)
(* and return [w, err, val]: err is "none" or the exception raised.        *)

NParsers == 2            \* most DexParser objects constructed in a run
MaxCalls == 3            \* most method calls made on them in a run

ParserIds == 1..NParsers

IdClasses == <<"StringIdItem", "TypeIdItem", "ProtoIdItem", "FieldIdItem", "MethodIdItem",
               "ClassDefItem">>

\* the classes Header.__init__ reads a (size, offset) pair for, in its order
HeaderClasses == IdClasses \o <<"ClassDefData">>

ItemClasses == {"StringIdItem", "TypeIdItem", "ProtoIdItem", "FieldIdItem", "MethodIdItem",
                "ClassDefItem", "ClassDefData", "EncodedItem", "EncodedMethod"}

NoSize == -1

None == [none |-> TRUE]

Ok(w, v) == [w |-> w, err |-> "none", val |-> v]
Raise(w, e) == [w |-> w, err |-> e, val |-> None]

\* r, and then K(r) unless r raised: the exception of a statement ends the method
Then(r, K(_)) == IF r.err # "none" THEN Raise(r.w, r.err) ELSE K(r)

SeedFileBytes == [fd \in SeedFiles |-> SeedBytes[fd.name]]
BareFileBytes == [fd \in BareFiles |-> DexBytes(BareDex(fd.p[1], fd.p[2], fd.p[3], fd.name))]
HdrFileBytes == [fd \in HdrFiles \cup EmptyDexFiles |-> HdrBytes(fd.p)]

\* the bytes of parser p's file
Bytes(w, p) ==
    CASE w.par[p].file.kind = "seed" -> SeedFileBytes[w.par[p].file]
      [] w.par[p].file.kind = "bare" -> BareFileBytes[w.par[p].file]
      [] w.par[p].file.kind = "hdr" -> HdrFileBytes[w.par[p].file]

\* a ByteStream reader applied to parser p's stream
OnStream(w, p, r) == [w |-> [w EXCEPT !.par[p].pos = r.pos], err |-> r.err, val |-> r.val]

bs_read_byte(w, p) == OnStream(w, p, read_byte(Bytes(w, p), w.par[p].pos))
bs_read_bytes(w, p, n) == OnStream(w, p, read_bytes(Bytes(w, p), w.par[p].pos, n))
bs_read_short(w, p) == OnStream(w, p, read_short(Bytes(w, p), w.par[p].pos))
bs_read_int(w, p) == OnStream(w, p, read_int(Bytes(w, p), w.par[p].pos))
bs_read_ints(w, p, n) == OnStream(w, p, read_ints(Bytes(w, p), w.par[p].pos, n))
bs_read_string(w, p) == OnStream(w, p, read_string(Bytes(w, p), w.par[p].pos))

\* a LEB128 result with its value as a number
LebInt(r) == Res(r.err, IF r.err = "none" THEN r.val.hi * Pow2(LIMB) + r.val.lo ELSE 0, r.pos)

bs_read_leb128(w, p) == OnStream(w, p, LebInt(read_leb128(Bytes(w, p), w.par[p].pos)))

\* n consecutive read_leb128 calls
RECURSIVE bs_read_leb128s(_, _, _)
bs_read_leb128s(w, p, n) ==
    IF n = 0 THEN Ok(w, <<>>)
    ELSE Then(bs_read_leb128s(w, p, n - 1), LAMBDA before :
         Then(bs_read_leb128(before.w, p), LAMBDA r :
         Ok(r.w, Append(before.val, r.val))))

\* seek: self._file.seek(pos); a negative position raises IOError
bs_seek(w, p, pos) ==
    IF pos < 0 THEN Raise(w, "IOError")
    ELSE Ok([w EXCEPT !.par[p].pos = pos, !.log = Append(@, <<p, pos>>)], None)

\* hasattr(clazz, "_size"): set on the class itself or inherited (EncodedMethod is a
\* subclass of EncodedItem; EncodedField is EncodedItem itself)
HasSize(w, clazz) ==
    \/ w.size[clazz] # NoSize
    \/ clazz = "EncodedMethod" /\ w.size["EncodedItem"] # NoSize

\* clazz._size
SizeOf(w, clazz) == IF w.size[clazz] # NoSize THEN w.size[clazz] ELSE w.size["EncodedItem"]

\* an offset argument of parse_items: None, or a position
NoOffset == <<>>
At(pos) == <<pos>>

\* the empty Python list parse_items returns for count 0.  A table is [kind, clazz, bs,
\* start, n, elems, origin, after]; see LazyList below
EmptyList ==
    [kind |-> "list", clazz |-> "", bs |-> 0, start |-> 0, n |-> 0, elems |-> <<>>,
     origin |-> 0, after |-> 0]

\* an id table not assigned yet
Unloaded == [EmptyList EXCEPT !.kind = "unset"]

RECURSIVE Construct(_, _, _)
RECURSIVE LazyList(_, _, _, _)

\* Item.get: the FORMAT branch calls struct.iter_unpack(), which Python 2's struct
\* does not have (and Python 3's needs two arguments): StringIdItem.get raises
ItemGet(w, p, clazz, count) ==
    IF clazz = "StringIdItem" THEN Raise(w, "AttributeError")
    ELSE LazyList(w, p, clazz, count)

\* A slip parse_items could have: no early return for count = 0.
parse_items_always(w, p, count, offset, clazz) ==
    IF offset = NoOffset THEN ItemGet(w, p, clazz, count)
    ELSE Then(bs_seek(w, p, offset[1]), LAMBDA sk : ItemGet(sk.w, p, clazz, count))

\* ByteStream.parse_items
parse_items(w, p, count, offset, clazz) ==
    IF count = 0 THEN Ok(w, EmptyList)
    ELSE IF offset = NoOffset THEN ItemGet(w, p, clazz, count)
    ELSE Then(bs_seek(w, p, offset[1]), LAMBDA sk : ItemGet(sk.w, p, clazz, count))

\* clazz(bytestream): the record read at the stream's position
Construct(w, p, clazz) ==
    CASE clazz = "StringIdItem" ->
            Then(bs_read_int(w, p), LAMBDA r : Ok(r.w, [_data_offset |-> r.val]))
      [] clazz = "TypeIdItem" ->
            Then(bs_read_int(w, p), LAMBDA r : Ok(r.w, [_descriptor_index |-> r.val]))
      [] clazz = "ProtoIdItem" ->
            Then(bs_read_int(w, p), LAMBDA a :
            Then(bs_read_ints(a.w, p, 2), LAMBDA b :
            Ok(b.w, [_shorty_index |-> a.val, _return_type_index |-> b.val[1],
                     _parameters_offset |-> b.val[2]])))
      [] clazz = "FieldIdItem" ->
            Then(bs_read_short(w, p), LAMBDA a :
            Then(bs_read_short(a.w, p), LAMBDA b :
            Then(bs_read_int(b.w, p), LAMBDA c :
            Ok(c.w, [_class_index |-> a.val, _type_index |-> b.val, _name_index |-> c.val]))))
      [] clazz = "MethodIdItem" ->
            Then(bs_read_short(w, p), LAMBDA a :
            Then(bs_read_short(a.w, p), LAMBDA b :
            Then(bs_read_int(b.w, p), LAMBDA c :
            Ok(c.w, [_class_index |-> a.val, _proto_index |-> b.val, _name_index |-> c.val]))))
      [] clazz = "ClassDefItem" ->
            Then(bs_read_ints(w, p, 8), LAMBDA r :
            Ok(r.w, [_class_index |-> r.val[1], _access_flags |-> r.val[2],
                     _super_class_index |-> r.val[3], _interfaces_offset |-> r.val[4],
                     _source_file_index |-> r.val[5], _annotations_offset |-> r.val[6],
                     _class_data_offset |-> r.val[7], _static_values_offset |-> r.val[8],
                     _descriptor |-> None, _super_descriptor |-> None]))
      [] clazz = "EncodedItem" ->
            Then(bs_read_leb128s(w, p, 2), LAMBDA r :
            Ok(r.w, [_index_diff |-> r.val[1], _access_flags |-> r.val[2]]))
      [] clazz = "EncodedMethod" ->
            Then(bs_read_leb128s(w, p, 3), LAMBDA r :
            Ok(r.w, [_index_diff |-> r.val[1], _access_flags |-> r.val[2],
                     _code_offset |-> r.val[3]]))
      [] clazz = "ClassDefData" ->
            Then(bs_read_leb128s(w, p, 4), LAMBDA n :
            Then(parse_items(n.w, p, n.val[1], NoOffset, "EncodedItem"), LAMBDA sf :
            Then(parse_items(sf.w, p, n.val[2], NoOffset, "EncodedItem"), LAMBDA inf :
            Then(parse_items(inf.w, p, n.val[3], NoOffset, "EncodedMethod"), LAMBDA dm :
            Then(parse_items(dm.w, p, n.val[4], NoOffset, "EncodedMethod"), LAMBDA vm :
            Ok(vm.w, [_static_fields_size |-> n.val[1],
                      _instance_fields_size |-> n.val[2],
                      _direct_methods_size |-> n.val[3],
                      _virtual_methods_size |-> n.val[4],
                      _static_fields |-> sf.val, _instance_fields |-> inf.val,
                      _direct_methods |-> dm.val, _virtual_methods |-> vm.val]))))))

(* LazyList.__init__.  The table it builds: clazz, bs (the parser whose    *)
(* stream it reads), start (self._start), n (len(self._elements)) and      *)
(* elems (self._elements as a function from the 0-based indices of the     *)
(* elements read so far; an index outside its domain holds None).  origin  *)
(* and after are history: the stream position when the load began and      *)
(* when it returned.                                                       *)

\* lines 26-29, with the elements and the position the load began at
lazy_rest(w, p, clazz, size, elems, origin) ==
    IF ~HasSize(w, clazz) THEN Raise(w, "AttributeError")
    ELSE Then(bs_seek(w, p, w.par[p].pos + (size - 1) * SizeOf(w, clazz)), LAMBDA sk :
         Ok(sk.w, [kind |-> "lazy", clazz |-> clazz, bs |-> p, start |-> w.par[p].pos,
                   n |-> IF size > 0 THEN size ELSE 0, elems |-> elems,
                   origin |-> origin, after |-> sk.w.par[p].pos]))

LazyList(w, p, clazz, size) ==
    IF ~HasSize(w, clazz) /\ size # 0
    THEN Then(Construct(w, p, clazz), LAMBDA first :
         IF size < 0 THEN Raise(first.w, "IndexError")
         ELSE lazy_rest([first.w EXCEPT !.size[clazz] = first.w.par[p].pos - w.par[p].pos],
                        p, clazz, size, 0 :> first.val, w.par[p].pos))
    ELSE lazy_rest(w, p, clazz, size, <<>>, w.par[p].pos)

\* what __getitem__ returns: the element, and the table as the call leaves it
Got(w, v, tbl) == [w |-> w, err |-> "none", val |-> v, tbl |-> tbl]

\* the index of self._elements[item] counted from 0
Slot(tbl, item) == IF item >= 0 THEN item ELSE tbl.n + item

\* LazyList.__getitem__ (list.__getitem__ for the empty list)
lazy_getitem(w, tbl, item) ==
    IF item >= tbl.n \/ item < -tbl.n THEN Raise(w, "IndexError")
    ELSE IF Slot(tbl, item) \in DOMAIN tbl.elems THEN Got(w, tbl.elems[Slot(tbl, item)], tbl)
    ELSE Then(bs_seek(w, tbl.bs, tbl.start + item * SizeOf(w, tbl.clazz)), LAMBDA sk :
         Then(Construct(sk.w, tbl.bs, tbl.clazz), LAMBDA c :
         Got(c.w, c.val, [tbl EXCEPT !.elems = (Slot(tbl, item) :> c.val) @@ @])))

\* a reference to the id table of class c of parser p
Ref(p, c) == [set |-> TRUE, p |-> p, c |-> c]
Unset == [set |-> FALSE, p |-> 0, c |-> ""]

\* table[item] for a table object held by a parser or a class attribute
ref_getitem(w, ref, item) ==
    IF ~ref.set THEN Raise(w, "AttributeError")
    ELSE Then(lazy_getitem(w, w.par[ref.p].ids[ref.c], item), LAMBDA r :
         Ok([r.w EXCEPT !.par[ref.p].ids[ref.c] = r.tbl], r.val))

-----------------------------------------------------------------------------
(* DexParser.__init__: the header, its validation, the six id tables.      *)

IdSet == {IdClasses[i] : i \in 1..Len(IdClasses)}

\* the (size, offset) pairs of Header.__init__, lines 88-92, from pair i on
RECURSIVE read_pairs(_, _, _, _)
read_pairs(w, p, i, acc) ==
    IF i > Len(HeaderClasses) THEN Ok(w, acc)
    ELSE Then(bs_read_ints(w, p, 2), LAMBDA r : read_pairs(r.w, p, i + 1, Append(acc, r.val)))

\* DexMagic.__init__ and Header.__init__: every field is read before any is looked at
Header(w, p) ==
    Then(bs_read_bytes(w, p, 3), LAMBDA dex :
    Then(bs_read_byte(dex.w, p), LAMBDA newline :
    Then(bs_read_bytes(newline.w, p, 3), LAMBDA version :
    Then(bs_read_byte(version.w, p), LAMBDA zero :
    Then(bs_read_int(zero.w, p), LAMBDA checksum :
    Then(bs_read_bytes(checksum.w, p, 20), LAMBDA signature :
    Then(bs_read_ints(signature.w, p, 6), LAMBDA six :
    Then(read_pairs(six.w, p, 1, <<>>), LAMBDA pairs :
    Ok(pairs.w, [_dex |-> dex.val, _newline |-> newline.val,
                 _version |-> version.val, _zero |-> zero.val,
                 _endian_tag |-> six.val[3], _size_and_offset |-> pairs.val])))))))))

\* DexMagic.validate
magic_validate(h) ==
    /\ h._dex = <<100, 101, 120>>
    /\ h._newline = 10
    /\ h._version = <<48, 51, 53>>
    /\ h._zero = 0

InvalidMagic == "DexFormatException: Invalid dex magic in dex file"
InvalidEndian == "DexFormatException: Invalid endian-ness/tag in dex file"

\* Header.validate: "none", or the exception it raises
validate(h) ==
    IF ~magic_validate(h) THEN InvalidMagic
    ELSE IF h._endian_tag # EXPECTED_ENDIAN_TAG THEN InvalidEndian
    ELSE "none"

\* lines 411-415: the table is kept in self._ids and, for two classes, in Item
store_ids(w, p, clazz, tbl) ==
    [w EXCEPT !.par[p].ids[clazz] = tbl,
              !.tids = IF clazz = "TypeIdItem" THEN Ref(p, clazz) ELSE @,
              !.sids = IF clazz = "StringIdItem" THEN Ref(p, clazz) ELSE @]

\* the loop of DexParser.__init__, lines 408-415, from id class i on
RECURSIVE load_ids(_, _, _, _)
load_ids(w, p, h, i) ==
    IF i > Len(IdClasses) THEN Ok(w, None)
    ELSE Then(parse_items(w, p, h._size_and_offset[i][1], At(h._size_and_offset[i][2]),
                          IdClasses[i]),
              LAMBDA r : load_ids(store_ids(r.w, p, IdClasses[i], r.val), p, h, i + 1))

\* a parser slot no DexParser has been constructed in
NoParser ==
    [state |-> "none", file |-> Fd("", "", <<>>), pos |-> 0, ids |-> [c \in IdSet |-> Unloaded]]

\* DexParser.__init__ on file fd; self._headers is not read again after it and is not kept
DexParser(w, p, fd) ==
    Then(Header([w EXCEPT !.par[p] = [NoParser EXCEPT !.state = "failed", !.file = fd]], p),
         LAMBDA h :
    IF validate(h.val) # "none" THEN Raise(h.w, validate(h.val))
    ELSE Then(load_ids(h.w, p, h.val, 1), LAMBDA r :
         Ok([r.w EXCEPT !.par[p].state = "open"], None)))

-----------------------------------------------------------------------------
(* Descriptors and method names.  A string is the sequence of its          *)
(* character codes.  An attribute of a record object is a field of the     *)
(* record; reading an attribute the object does not have raises            *)
(* AttributeError.                                                         *)

HasAttr(obj, name) == name \in DOMAIN obj

\* ByteStream.parse_descriptor: line 98 reads string_id.data_offset
parse_descriptor(w, p, string_id) ==
    IF ~HasAttr(string_id, "data_offset") THEN Raise(w, "AttributeError")
    ELSE Then(bs_seek(w, p, string_id.data_offset), LAMBDA sk :
         Then(bs_read_leb128(sk.w, p), LAMBDA unused :
         bs_read_string(unused.w, p)))

\* ByteStream.parse_method_name: line 104 reads method_id._string_ids, then
\* method_id.name_index
parse_method_name(w, p, method_id) ==
    IF ~w.sids.set THEN Raise(w, "AttributeError")
    ELSE IF ~HasAttr(method_id, "name_index") THEN Raise(w, "AttributeError")
    ELSE Then(ref_getitem(w, w.sids, method_id.name_index), LAMBDA string_id :
         parse_descriptor(string_id.w, p, string_id.val))

\* EncodedMethod.method_name, for a method m read from parser p's stream
method_name(w, p, m, method_ids) ==
    Then(ref_getitem(w, method_ids, m._index_diff), LAMBDA method_id :
    parse_method_name(method_id.w, p, method_id.val))

\* ClassDefItem.super_type
super_type(w, cdef) ==
    IF cdef._super_class_index < 0 THEN Ok(w, None)
    ELSE ref_getitem(w, w.tids, cdef._super_class_index)

\* ClassDefItem.super_descriptor.  Line 240 stores the result in _super_descrptor, an
\* attribute nothing tests: _super_descriptor stays None and every call resolves anew.
super_descriptor(w, p, cdef) ==
    IF cdef._super_descriptor # None THEN Raise(w, "AttributeError")
    ELSE Then(super_type(w, cdef), LAMBDA st :
         IF ~HasAttr(st.val, "_descriptor_index") THEN Raise(st.w, "AttributeError")
         ELSE Then(ref_getitem(st.w, st.w.sids, st.val._descriptor_index), LAMBDA string_id :
              parse_descriptor(string_id.w, p, string_id.val)))

\* ClassDefItem.has_direct_super_class
has_direct_super_class(w, p, cdef, descriptors) ==
    IF cdef._super_class_index < 0 THEN Ok(w, FALSE)
    ELSE Then(super_descriptor(w, p, cdef), LAMBDA desc : Ok(desc.w, desc.val \in descriptors))

\* a descriptor string kept in ClassDefItem._descriptor
Cached(str) == [str |-> str]

\* the class def in slot i of parser p's table
ClassDefAt(w, p, i) == w.par[p].ids["ClassDefItem"].elems[i]

\* ClassDefItem.descriptor, for the class def in slot i of parser p's table: the string,
\* kept in the object once resolved (an empty string is resolved again)
descriptor(w, p, i) ==
    IF ClassDefAt(w, p, i)._descriptor # None /\ ClassDefAt(w, p, i)._descriptor.str # <<>>
    THEN Ok(w, ClassDefAt(w, p, i)._descriptor.str)
    ELSE Then(ref_getitem(w, w.tids, ClassDefAt(w, p, i)._class_index), LAMBDA type_id :
         Then(ref_getitem(type_id.w, type_id.w.sids, type_id.val._descriptor_index),
              LAMBDA string_id :
         Then(parse_descriptor(string_id.w, p, string_id.val), LAMBDA str :
         Ok([str.w EXCEPT !.par[p].ids["ClassDefItem"].elems[i]._descriptor = Cached(str.val)],
            str.val))))

\* str.startswith(prefix)
startswith(str, prefix) ==
    Len(str) >= Len(prefix) /\ SubSeq(str, 1, Len(prefix)) = prefix

\* sub in str
contains(str, sub) ==
    \E k \in 0..(Len(str) - Len(sub)) : SubSeq(str, k + 1, k + Len(sub)) = sub

\* the index of the last '.' of a name that has one
LastDot(name) == CHOOSE d \in 1..Len(name) : name[d] = 46 /\ \A e \in (d + 1)..Len(name) : name[e] # 46

\* DexParser._reformat: "#".join(name.rsplit('.', 1)), the last '.' becomes '#'
reformat(name) ==
    IF \A k \in 1..Len(name) : name[k] # 46 THEN name
    ELSE [k \in 1..Len(name) |-> IF k = LastDot(name) THEN 35 ELSE name[k]]

-----------------------------------------------------------------------------
(* The queries.  A for loop over a table asks it for items 0, 1, 2, ...    *)
(* and ends at the first IndexError the table raises, whether from the     *)
(* index or from the decoding of the element.                              *)

Range(seq) == {seq[k] : k \in 1..Len(seq)}

\* one round of a for loop: r is what table[i] gave, acc what the loop has built
Each(r, acc, K(_)) == IF r.err = "IndexError" THEN Ok(r.w, acc) ELSE Then(r, K)

\* line 423: [c for c in self._ids[ClassDefItem] if c.has_direct_super_class(fixed_set)],
\* from item i on
RECURSIVE direct_subclasses(_, _, _, _, _)
direct_subclasses(w, p, i, fixed_set, acc) ==
    Each(ref_getitem(w, Ref(p, "ClassDefItem"), i), acc, LAMBDA c :
    Then(has_direct_super_class(c.w, p, c.val, fixed_set), LAMBDA h :
    direct_subclasses(h.w, p, i + 1, fixed_set, IF h.val THEN Append(acc, c.val) ELSE acc)))

\* lines 423-427: the loop body, from matching class k on; the descriptor of each
\* matching class is appended to the caller's list
RECURSIVE append_descriptors(_, _, _, _, _)
append_descriptors(w, p, classes, k, descriptors) ==
    IF k > Len(classes) THEN Ok(w, descriptors)
    ELSE Then(ref_getitem(w, Ref(p, "TypeIdItem"), classes[k]._class_index), LAMBDA type_id :
         Then(ref_getitem(type_id.w, Ref(p, "StringIdItem"), type_id.val._descriptor_index),
              LAMBDA string_id :
         Then(parse_descriptor(string_id.w, p, string_id.val), LAMBDA str :
         append_descriptors([str.w EXCEPT !.list = Append(descriptors, str.val)], p, classes,
                            k + 1, Append(descriptors, str.val)))))

\* DexParser.find_classes_directly_inherited_from: the matching classes and the
\* caller's list as the call leaves it
find_classes_directly_inherited_from(w, p, descriptors) ==
    Then(direct_subclasses([w EXCEPT !.list = descriptors], p, 0, Range(descriptors), <<>>),
         LAMBDA matching :
    Then(append_descriptors(matching.w, p, matching.val, 1, descriptors), LAMBDA appended :
    Ok(appended.w, [classes |-> matching.val, descriptors |-> appended.val])))

\* line 435: [m.method_name(...) for m in class_data._virtual_methods], from item i on
RECURSIVE virtual_method_names(_, _, _, _, _)
virtual_method_names(w, p, methods, i, acc) ==
    Each(lazy_getitem(w, methods, i), acc, LAMBDA m :
    Then(method_name(m.w, p, m.val, Ref(p, "MethodIdItem")), LAMBDA name :
    virtual_method_names(name.w, p, m.tbl, i + 1, Append(acc, name.val))))

\* DexParser.find_method_names
find_method_names(w, p, class_def) ==
    Then(parse_items(w, p, 1, At(class_def._class_data_offset), "ClassDefData"), LAMBDA items :
    Then(lazy_getitem(items.w, items.val, 0), LAMBDA class_data :
    virtual_method_names(class_data.w, p, class_data.val._virtual_methods, 0, <<>>)))

\* the names of a list that start with "test", reformatted
test_names(names) ==
    LET tests == SelectSeq(names, LAMBDA m : startswith(m, sTestPrefix))
    IN  [j \in 1..Len(tests) |-> reformat(tests[j])]

\* lines 449-450: the loop of find_junit3_tests, from test class k on
RECURSIVE test_method_names(_, _, _, _, _)
test_method_names(w, p, test_classes, k, method_names) ==
    IF k > Len(test_classes) THEN Ok(w, method_names)
    ELSE Then(find_method_names(w, p, test_classes[k]), LAMBDA names :
         test_method_names(names.w, p, test_classes, k + 1,
                           method_names \o test_names(names.val)))

\* DexParser.find_junit3_tests: the set returned, and the descriptors list as left
find_junit3_tests(w, p, descriptors) ==
    Then(find_classes_directly_inherited_from(w, p, descriptors), LAMBDA found :
    Then(test_method_names(found.w, p, found.val.classes, 1, <<>>), LAMBDA names :
    Ok(names.w, [tests |-> Range(names.val), descriptors |-> found.val.descriptors])))

sLinkedin == <<108, 105, 110, 107, 101, 100, 105, 110>>     \* "linkedin"
sLandroid == <<76, 97, 110, 100, 114, 111, 105, 100>>       \* "Landroid"
sLjava == <<76, 106, 97, 118, 97>>                          \* "Ljava"

\* line 457: the slots of the class defs with _annotations_offset != 0, from item i on
RECURSIVE annotated_classes(_, _, _, _)
annotated_classes(w, p, i, acc) ==
    Each(ref_getitem(w, Ref(p, "ClassDefItem"), i), acc, LAMBDA c :
    annotated_classes(c.w, p, i + 1,
                      IF c.val._annotations_offset # 0 THEN Append(acc, i) ELSE acc))

\* Lines 460-465 of find_junit4_tests decode the class's annotations directory and
\* collect its annotated methods.  They run after cdef.descriptor has returned a
\* string that passes the filter of line 458; no call gets there
\* (DescriptorNeverReturns below), and the lines are not carried further.
past_filter(w) == Raise(w, "lines 460-465")

\* line 458: the classes find_junit4_tests passes over
filtered_out(desc) ==
    \/ ~contains(desc, sLinkedin)
    \/ startswith(desc, sLandroid)
    \/ startswith(desc, sLjava)

\* lines 457-465: the loop of find_junit4_tests, from annotated class k on
RECURSIVE junit4_loop(_, _, _, _, _)
junit4_loop(w, p, slots, k, result) ==
    IF k > Len(slots) THEN Ok(w, result)
    ELSE Then(descriptor(w, p, slots[k]), LAMBDA d :
         IF filtered_out(d.val) THEN junit4_loop(d.w, p, slots, k + 1, result)
         ELSE past_filter(d.w))

\* DexParser.find_junit4_tests
find_junit4_tests(w, p) ==
    Then(annotated_classes(w, p, 0, <<>>), LAMBDA cdefs :
    Then(junit4_loop(cdefs.w, p, cdefs.val, 1, <<>>), LAMBDA result :
    Ok(result.w, Range(result.val))))

-----------------------------------------------------------------------------
(* The parsers as a state machine: DexParser objects are constructed one   *)
(* after the other, and the methods of the constructed ones are called in  *)
(* any order.                                                              *)

World ==
    [par |-> parsers, size |-> clsSize, tids |-> itemTypeIds, sids |-> itemStringIds,
     log |-> <<>>, list |-> <<>>]

NoLast == [op |-> "none", p |-> 0, arg |-> <<>>, err |-> "none", val |-> None, seeks |-> <<>>]

\* the state a call leaves: r is what the call returned, as [w, err, val]
Returns(r, op, p, arg) ==
    /\ parsers' = r.w.par
    /\ clsSize' = r.w.size
    /\ itemTypeIds' = r.w.tids
    /\ itemStringIds' = r.w.sids
    /\ last' = [op |-> op, p |-> p, arg |-> arg, err |-> r.err, val |-> r.val,
                seeks |-> r.w.log]
    /\ ncalls' = IF op = "DexParser" THEN ncalls ELSE ncalls + 1
    /\ defaultDescriptors' = IF op = "find_junit3_tests()" THEN r.w.list ELSE defaultDescriptors

\* a method of parser p can be called
IsOpen(p) == parsers[p].state = "open" /\ ncalls < MaxCalls

\* the descriptor lists handed to the junit3 queries
DescriptorLists == {<<sTestCase>>}

\* list(junit3.Junit3Processor.DEFAULT_DESCRIPTORS): the built-in descriptors
DEFAULT_DESCRIPTORS == <<sInstrumentationTestCase, sTestCase>>

\* a call that passes no descriptors, and the list the method then works on
Default == <<>>
Passed(descriptors) == IF descriptors = Default THEN defaultDescriptors ELSE descriptors

\* DexParser(fd), the p-th parser constructed
Open(p, fd) ==
    /\ parsers[p].state = "none"
    /\ \A q \in 1..(p - 1) : parsers[q].state # "none"
    /\ Returns(DexParser(World, p, fd), "DexParser", p, fd)
    /\ UNCHANGED streamVars

OpenDex == \E p \in ParserIds, fd \in SeedFiles \cup BareFiles \cup EmptyDexFiles : Open(p, fd)

\* parser._ids[clazz][i], for an index of the table and the first one past its end
GetItem ==
    \E p \in ParserIds, clazz \in IdSet, i \in 0..MaxClasses :
        /\ IsOpen(p)
        /\ parsers[p].ids[clazz].n > 0
        /\ i <= parsers[p].ids[clazz].n
        /\ Returns(ref_getitem(World, Ref(p, clazz), i), "getitem", p, <<clazz, i>>)
        /\ UNCHANGED streamVars

\* parser.find_classes_directly_inherited_from(descriptors)
FindClasses ==
    \E p \in ParserIds, descriptors \in DescriptorLists :
        /\ IsOpen(p)
        /\ Returns(find_classes_directly_inherited_from(World, p, descriptors),
                   "find_classes_directly_inherited_from", p, descriptors)
        /\ UNCHANGED streamVars

\* parser.find_method_names(class_def), class_def a class def got from the parser's table
FindMethodNames ==
    \E p \in ParserIds, i \in 0..(MaxClasses - 1) :
        /\ IsOpen(p)
        /\ i \in DOMAIN parsers[p].ids["ClassDefItem"].elems
        /\ Returns(find_method_names(World, p, parsers[p].ids["ClassDefItem"].elems[i]),
                   "find_method_names", p, i)
        /\ UNCHANGED streamVars

\* parser.find_junit3_tests(descriptors), and parser.find_junit3_tests(), where
\* descriptors is the one list object made when the method was defined
FindJunit3 ==
    \E p \in ParserIds, descriptors \in DescriptorLists \cup {Default} :
        /\ IsOpen(p)
        /\ Returns(find_junit3_tests(World, p, Passed(descriptors)),
                   IF descriptors = Default THEN "find_junit3_tests()" ELSE "find_junit3_tests",
                   p, Passed(descriptors))
        /\ UNCHANGED streamVars

\* parser.find_junit4_tests()
FindJunit4 ==
    \E p \in ParserIds :
        /\ IsOpen(p)
        /\ Returns(find_junit4_tests(World, p), "find_junit4_tests", p, <<>>)
        /\ UNCHANGED streamVars

NoCall == [op |-> "none", start |-> 0]
NoRet == Res("none", <<>>, 0)

NoStream ==
    /\ data = <<>>
    /\ cursor = 0
    /\ call = NoCall
    /\ ret = NoRet

NoParsers ==
    /\ parsers = [p \in ParserIds |-> NoParser]
    /\ clsSize = [c \in ItemClasses |-> NoSize]
    /\ itemTypeIds = Unset
    /\ itemStringIds = Unset
    /\ last = NoLast
    /\ ncalls = 0
    /\ defaultDescriptors = DEFAULT_DESCRIPTORS

Init == NoStream /\ NoParsers

Next ==
    \/ OpenDex
    \/ GetItem
    \/ FindClasses
    \/ FindMethodNames
    \/ FindJunit3
    \/ FindJunit4

Spec == Init /\ [][Next]_vars

(* The constructor alone, on headers damaged in every way HdrFiles lists.  *)

OpenHeader == \E fd \in HdrFiles : Open(1, fd)

NextHeader == OpenHeader

SpecHeader == Init /\ [][NextHeader]_vars

-----------------------------------------------------------------------------
(* The byte stream on its own: one method applied to a stream positioned   *)
(* somewhere in a file.                                                    *)

MaxLebLen == 6          \* longest byte sequence handed to read_leb128
MaxStart == 2           \* bytes in front of the sequence under test
MaxPayload == 258       \* longest string payload handed to read_string

\* byte values for LEB128 sequences: both continuation settings, small and large payloads
LebBytes == {0, 38, 127, 128, 142, 229}

RECURSIVE SeqsUpTo(_, _)
SeqsUpTo(S, n) ==
    IF n = 0 THEN {<<>>}
    ELSE LET shorter == SeqsUpTo(S, n - 1)
         IN  shorter \cup {Append(s, x) : s \in {t \in shorter : Len(t) = n - 1}, x \in S}

\* a payload of n non-NUL bytes whose values vary with their index
Payload(n) == [i \in 1..n |-> 1 + (i % 7)]

InitLeb ==
    /\ \E pre \in 0..MaxStart, s \in SeqsUpTo(LebBytes, MaxLebLen) \ {<<>>} :
          /\ data = Filled(pre, 255) \o s
          /\ cursor = pre
    /\ call = NoCall
    /\ ret = NoRet
    /\ NoParsers

CallReadLeb128 ==
    /\ call.op = "none"
    /\ LET r == read_leb128(data, cursor)
       IN  /\ ret' = r
           /\ cursor' = r.pos
    /\ call' = [op |-> "read_leb128", start |-> cursor]
    /\ UNCHANGED <<data, parserVars>>

NextLeb == CallReadLeb128

SpecLeb == InitLeb /\ [][NextLeb]_vars

\* what follows the payload: the terminator and more bytes, or the end of the file
Trailers == {<<0>>, <<0, 65, 0>>, <<0, 0>>, <<>>}

InitStr ==
    /\ \E pre \in 0..MaxStart, n \in 0..MaxPayload, t \in Trailers :
          /\ data = Filled(pre, 0) \o Payload(n) \o t
          /\ cursor = pre
    /\ call = NoCall
    /\ ret = NoRet
    /\ NoParsers

CallReadString ==
    /\ call.op = "none"
    /\ LET r == read_string(data, cursor)
       IN  /\ ret' = r
           /\ cursor' = r.pos
    /\ call' = [op |-> "read_string", start |-> cursor]
    /\ UNCHANGED <<data, parserVars>>

NextStr == CallReadString

SpecStr == InitStr /\ [][NextStr]_vars

(* DexParser.EncodedValue.__init__ applied to a stream positioned on the   *)
(* header byte of an encoded value.                                        *)

MaxValueLen == 9        \* most bytes that follow the header byte in the file

VALUE_ENUM == 27
VALUE_ARRAY == 28
VALUE_ANNOTATION == 29
VALUE_NULL == 30
VALUE_BOOLEAN == 31

\* the VALUE_ attributes of the class: the list of line 332
VALUE_TYPES == {0, 2, 3, 4, 6, 16, 17, 23, 24, 25, 26, VALUE_ENUM, VALUE_ARRAY,
                VALUE_ANNOTATION, VALUE_NULL, VALUE_BOOLEAN}

\* Python's `a and b` on integers: a when a is 0, b otherwise
PyAnd(a, b) == IF a = 0 THEN a ELSE b

\* line 337, parse_items(None, None, EncodedArray): count None is not 0, and
\* LazyList.__init__ evaluates range(None)
array_value(f, pos) == Res("TypeError", <<>>, pos)

\* Line 339 hands the stream to EncodedAnnotation.  value_type is 0 or VALUE_BOOLEAN
\* (line 330), so no call gets there (AnnotationBranchNeverTaken below), and the
\* branch is not carried further.
annotation_value(f, pos) == Res("line 339", <<>>, pos)

\* lines 329-343, after the header byte arg_and_type has been read
value_payload(f, pos, value_arg, value_type) ==
    IF value_type \notin VALUE_TYPES THEN Res("Exception: Value type invalid", <<>>, pos)
    ELSE IF value_type <= VALUE_ENUM THEN read_bytes(f, pos, value_arg + 1)
    ELSE IF value_type = VALUE_ARRAY THEN array_value(f, pos)
    ELSE IF value_type = VALUE_ANNOTATION THEN annotation_value(f, pos)
    ELSE IF value_type = VALUE_NULL THEN Res("none", <<>>, pos)
    ELSE read_bytes(f, pos, value_arg)

\* EncodedValue.__init__: value_arg = arg_and_type >> 5, value_type = arg_and_type and 0x1F
EncodedValue(f, pos) ==
    IF read_byte(f, pos).err # "none" THEN read_byte(f, pos)
    ELSE value_payload(f, read_byte(f, pos).pos,
                       read_byte(f, pos).val \div 32, PyAnd(read_byte(f, pos).val, 31))

\* a header byte, up to MaxValueLen zero bytes after it
InitValue ==
    /\ \E pre \in 0..MaxStart, header \in 0..255, n \in 0..MaxValueLen :
          /\ data = Filled(pre, 255) \o <<header>> \o Filled(n, 0)
          /\ cursor = pre
    /\ call = NoCall
    /\ ret = NoRet
    /\ NoParsers

CallEncodedValue ==
    /\ call.op = "none"
    /\ LET r == EncodedValue(data, cursor)
       IN  /\ ret' = r
           /\ cursor' = r.pos
    /\ call' = [op |-> "EncodedValue", start |-> cursor]
    /\ UNCHANGED <<data, parserVars>>

NextValue == CallEncodedValue

SpecValue == InitValue /\ [][NextValue]_vars

-----------------------------------------------------------------------------
(* read_leb128 and read_string against their contracts.                    *)

\* the bytes the stream held from the position the call started at
Input == SubSeq(data, call.start + 1, Len(data))

\* v * 128 + d in limbs
Times128Plus(v, d) ==
    Big(v.hi * 128 + v.lo \div Pow2(LIMB - 7), (v.lo % Pow2(LIMB - 7)) * 128 + d)

\* the standard unsigned LEB128 value of a byte sequence: sum of (byte mod 128) * 128^i
RECURSIVE StdLeb128(_)
StdLeb128(s) ==
    IF s = <<>> THEN Big(0, 0) ELSE Times128Plus(StdLeb128(Tail(s)), s[1] % 128)

\* s starts with a LEB128 sequence of exactly k bytes
EndsAt(s, k) ==
    /\ k <= Len(s)
    /\ s[k] < 128
    /\ \A j \in 1..(k - 1) : s[j] >= 128

\* C5: read_leb128 returns the standard unsigned LEB128 value of every 1-to-5-byte
\* sequence whose last byte has its high bit clear, leaving the stream right after
\* that byte, and raises on five bytes that all have the continuation bit set.
C5_Leb128Decodes ==
    call.op = "read_leb128" =>
        /\ \A k \in 1..5 :
              EndsAt(Input, k) =>
                  /\ ret.err = "none"
                  /\ ret.val = StdLeb128(SubSeq(Input, 1, k))
                  /\ cursor = call.start + k
        /\ (Len(Input) >= 5 /\ \A j \in 1..5 : Input[j] >= 128) =>
              ret.err = "Exception: LEB128 sequence invalid"

\* a five-byte sequence was decoded to a value that needs more than 28 bits
C5_Witness ==
    /\ call.op = "read_leb128"
    /\ EndsAt(Input, 5)
    /\ ret.err = "none"
    /\ ret.val.hi > 0
    /\ cursor = call.start + 5

\* the bytes of s before its first 0x00 byte
UpToNul(s) == SubSeq(s, 1, (CHOOSE i \in 1..Len(s) : s[i] = 0 /\ \A j \in 1..(i - 1) : s[j] # 0) - 1)

HasNul(s) == \E i \in 1..Len(s) : s[i] = 0

\* C6: after read_string returns, the string is the bytes before the first 0x00 byte
\* and the stream is positioned exactly one byte past that terminator.
C6_ReadStringPastTerminator ==
    (call.op = "read_string" /\ HasNul(Input)) =>
        /\ ret.err = "none"
        /\ ret.val = UpToNul(Input)
        /\ cursor = call.start + Len(ret.val) + 1

-----------------------------------------------------------------------------
(* The parser against its contract.  What a query should return is worked  *)
(* out from the description of the file (its tables), not from its bytes.  *)

\* the tables of a file
DexOf(fd) ==
    CASE fd.kind = "seed" -> SeedDex(fd.name)
      [] fd.kind = "bare" -> BareDex(fd.p[1], fd.p[2], fd.p[3], fd.name)
      [] fd.kind = "hdr" -> Dex(<<>>, <<>>, <<>>, <<>>)

\* the file of the parser the last call was made on
LastFile == parsers[last.p].file

\* the running method indices of a list of index_diff values
RunningIndex(diffs, k) == SumSeq(SubSeq(diffs, 1, k))

\* every index of the tables refers to an entry that exists
WellFormed(d) ==
    /\ \A t \in 1..Len(d.types) : d.types[t] < Len(d.strings)
    /\ \A m \in 1..Len(d.methods) :
          d.methods[m].cls < Len(d.types) /\ d.methods[m].name < Len(d.strings)
    /\ \A c \in 1..Len(d.classes) :
          /\ d.classes[c].cls < Len(d.types)
          /\ d.classes[c].sup < Len(d.types)
          /\ \A k \in 1..Len(d.classes[c].data.vm) :
                RunningIndex(d.classes[c].data.vm, k) < Len(d.methods)
          /\ \A a \in 1..Len(d.classes[c].annos) :
                /\ d.classes[c].annos[a].method < Len(d.methods)
                /\ d.classes[c].annos[a].type < Len(d.types)

\* the descriptor of type t and the name of method m (0-based, as in the file)
TypeDescriptor(d, t) == d.strings[d.types[t + 1] + 1]
MethodName(d, m) == d.strings[d.methods[m + 1].name + 1]

\* the class defs (by position in the table) whose direct superclass descriptor is in D
DirectSubclasses(d, D) ==
    {c \in 1..Len(d.classes) :
        d.classes[c].sup # NO_INDEX /\ TypeDescriptor(d, d.classes[c].sup) \in D}

\* the names of the virtual methods of class def c
VirtualNames(d, c) ==
    {MethodName(d, RunningIndex(d.classes[c].data.vm, k)) : k \in 1..Len(d.classes[c].data.vm)}

\* the test-prefixed virtual method names of a set of class defs
TestNames(d, cs) ==
    {name \in UNION {VirtualNames(d, c) : c \in cs} :
        Len(name) >= Len(sTestPrefix) /\ SubSeq(name, 1, Len(sTestPrefix)) = sTestPrefix}

ExpectedJunit3(d, D) == TestNames(d, DirectSubclasses(d, D))

\* C1: for every DEX file, find_junit3_tests(D) returns exactly the names beginning
\* with "test" among the virtual methods (resolved at their running index) of the
\* classes whose direct superclass descriptor is in D: a file that has such a method
\* can be opened, and the call on a well-formed file returns that set.
C1_Junit3Tests ==
    /\ (last.op = "DexParser" /\ ExpectedJunit3(DexOf(last.arg), {sTestCase}) # {})
          => last.err = "none"
    /\ (last.op = "find_junit3_tests" /\ WellFormed(DexOf(LastFile)))
          => /\ last.err = "none"
             /\ last.val.tests = ExpectedJunit3(DexOf(LastFile), Range(last.arg))

\* Lcom/ex/FooTest; displayed as com.ex.FooTest
Display(desc) ==
    [k \in 1..(Len(desc) - 2) |-> IF desc[k + 1] = 47 THEN 46 ELSE desc[k + 1]]

\* the Class#method displays of the methods annotated with Lorg/junit/Test;
ExpectedJunit4(d) ==
    UNION {{Display(TypeDescriptor(d, d.classes[c].cls)) \o <<35>>
                \o MethodName(d, d.classes[c].annos[a].method) :
                a \in {b \in 1..Len(d.classes[c].annos) :
                          TypeDescriptor(d, d.classes[c].annos[b].type) = sJunitTest}} :
           c \in 1..Len(d.classes)}

\* C2: for every DEX file, find_junit4_tests() returns exactly the Class#method
\* displays of the methods, in the classes with annotations, that carry an annotation
\* whose type resolves to Lorg/junit/Test;, all of them when a class has several: a
\* file that has such a method can be opened, and the call on a well-formed file
\* returns that set.
C2_Junit4Tests ==
    /\ (last.op = "DexParser" /\ ExpectedJunit4(DexOf(last.arg)) # {}) => last.err = "none"
    /\ (last.op = "find_junit4_tests" /\ WellFormed(DexOf(LastFile)))
          => /\ last.err = "none"
             /\ last.val = ExpectedJunit4(DexOf(LastFile))

\* the bytes of the file the last call was made on
LastBytes == FileBytes(LastFile)

\* the bytes of the file handed to the constructor
OpenedBytes == FileBytes(last.arg)

\* the call read nothing past the header and loaded no id table
NoTableRead ==
    /\ last.seeks = <<>>
    /\ parsers[last.p].pos <= HEADER_SIZE
    /\ \A c \in IdSet : parsers[last.p].ids[c] = Unloaded

\* C3: for every input whose first 8 bytes differ from "dex\n035\0" in any position,
\* constructing the DexParser fails with "Invalid dex magic in dex file", and no
\* id-table data is read before the failure.
C3_BadMagicRejected ==
    (/\ last.op = "DexParser"
     /\ Len(OpenedBytes) >= 8
     /\ SubSeq(OpenedBytes, 1, 8) # MagicBytes)
        => /\ last.err = InvalidMagic
           /\ NoTableRead

\* the endian_tag field of a header: the int at offset 40
EndianTagOf(bytes) == S32(SubSeq(bytes, 41, 44))

\* C4: for every input with valid magic whose endian_tag field is any value other
\* than 0x12345678 (the byte-swapped 0x78563412 included), constructing the DexParser
\* fails with "Invalid endian-ness/tag in dex file" before any id table is loaded.
C4_BadEndianRejected ==
    (/\ last.op = "DexParser"
     /\ Len(OpenedBytes) >= 44
     /\ SubSeq(OpenedBytes, 1, 8) = MagicBytes
     /\ EndianTagOf(OpenedBytes) # EXPECTED_ENDIAN_TAG)
        => /\ last.err = InvalidEndian
           /\ \A c \in IdSet : parsers[last.p].ids[c] = Unloaded

\* the descriptors of a set of class defs
DescriptorsOf(d, cs) == {TypeDescriptor(d, d.classes[c].cls) : c \in cs}

\* the class defs matched when the passes of Q1 are repeated n more times
RECURSIVE MatchedAfter(_, _, _, _)
MatchedAfter(d, D, cs, n) ==
    IF n = 0 THEN cs
    ELSE MatchedAfter(d, D, cs \cup DirectSubclasses(d, D \cup DescriptorsOf(d, cs)), n - 1)

\* the class defs Q1 matches at its fixpoint: no chain is longer than the table
Matched(d, D) == MatchedAfter(d, D, {}, Len(d.classes))

\* C7: Q1 class matching runs to a fixpoint within a single call: when B's direct
\* superclass is in D and C's direct superclass is B, in either table order, both
\* are among the classes find_classes_directly_inherited_from(D) returns, and C's
\* test-prefixed virtual methods are in find_junit3_tests(D): a file with such a
\* chain can be opened, and the calls on a well-formed file return the fixpoint.
C7_MatchingFixpoint ==
    /\ (/\ last.op = "DexParser"
        /\ Matched(DexOf(last.arg), {sTestCase}) # DirectSubclasses(DexOf(last.arg), {sTestCase}))
          => last.err = "none"
    /\ (last.op = "find_classes_directly_inherited_from" /\ WellFormed(DexOf(LastFile)))
          => /\ last.err = "none"
             /\ {c._class_index : c \in Range(last.val.classes)}
                   = {DexOf(LastFile).classes[c].cls :
                          c \in Matched(DexOf(LastFile), Range(last.arg))}
    /\ (last.op = "find_junit3_tests" /\ WellFormed(DexOf(LastFile)))
          => /\ last.err = "none"
             /\ TestNames(DexOf(LastFile), Matched(DexOf(LastFile), Range(last.arg)))
                   \subseteq last.val.tests

\* the call made no seek to position pos on the stream of the parser it was made on
NoSeekTo(pos) == \A k \in 1..Len(last.seeks) : last.seeks[k] # <<last.p, pos>>

\* C8: a matched class whose class_data_offset is 0 is skipped: no ClassDefData is
\* decoded for it (no seek to offset 0, no read there) and it contributes no method
\* names.  find_method_names is the step of find_junit3_tests that handles one
\* matched class: a file with such a class can be opened, and the step, given a class
\* def with class_data_offset 0, makes no seek to 0 and returns no names.
C8_NoDataClassSkipped ==
    /\ (/\ last.op = "DexParser"
        /\ \E c \in DirectSubclasses(DexOf(last.arg), {sTestCase}) :
              ~DexOf(last.arg).classes[c].data.has)
          => last.err = "none"
    /\ (/\ last.op = "find_method_names"
        /\ ClassDefAt(World, last.p, last.arg)._class_data_offset = 0)
          => /\ NoSeekTo(0)
             /\ last.err = "none"
             /\ last.val = <<>>

\* the int at offset o of a file
IntAt(bytes, o) == S32(SubSeq(bytes, o + 1, o + 4))

\* the short at offset o of a file
ShortAt(bytes, o) == S16(SubSeq(bytes, o + 1, o + 2))

\* the size field of the k-th (size, offset) pair of a header
TableSize(bytes, k) == IntAt(bytes, HEADER_SIZE - 8 * (Len(HeaderClasses) - k + 1))

\* a DEX with valid magic and endian tag whose id tables all have size 0
EmptyDex(bytes) ==
    /\ Len(bytes) >= HEADER_SIZE
    /\ SubSeq(bytes, 1, 8) = MagicBytes
    /\ EndianTagOf(bytes) = EXPECTED_ENDIAN_TAG
    /\ \A k \in 1..Len(IdClasses) : TableSize(bytes, k) = 0

\* the call made no seek and left the stream right after the header
NothingFollowed == last.seeks = <<>> /\ parsers[last.p].pos = HEADER_SIZE

\* C9: for a DEX with valid magic and endian tag and all id-table sizes 0, opening
\* succeeds, find_junit3_tests and find_junit4_tests return the empty set, and neither
\* the open nor the queries seek to an offset or read any table or record data.
C9_EmptyDexQuiet ==
    /\ (last.op = "DexParser" /\ EmptyDex(OpenedBytes))
          => /\ last.err = "none"
             /\ parsers[last.p].state = "open"
             /\ NothingFollowed
    /\ (last.op = "find_junit3_tests" /\ EmptyDex(LastBytes))
          => /\ last.err = "none"
             /\ last.val.tests = {}
             /\ NothingFollowed
    /\ (last.op = "find_junit4_tests" /\ EmptyDex(LastBytes))
          => /\ last.err = "none"
             /\ last.val = {}
             /\ NothingFollowed

\* both queries have been run on an open DEX with no tables, the last one junit4
C9_Witness ==
    /\ last.op = "find_junit4_tests"
    /\ EmptyDex(LastBytes)
    /\ last.val = {}
    /\ ncalls >= 2

\* the bytes one record of an id class takes
Stride(clazz) ==
    CASE clazz \in {"StringIdItem", "TypeIdItem"} -> 4
      [] clazz = "ProtoIdItem" -> 12
      [] clazz \in {"FieldIdItem", "MethodIdItem"} -> 8
      [] clazz = "ClassDefItem" -> 32

\* the record of an id class decoded from the bytes at offset o
RecordAt(bytes, clazz, o) ==
    CASE clazz = "StringIdItem" -> [_data_offset |-> IntAt(bytes, o)]
      [] clazz = "TypeIdItem" -> [_descriptor_index |-> IntAt(bytes, o)]
      [] clazz = "ProtoIdItem" ->
            [_shorty_index |-> IntAt(bytes, o), _return_type_index |-> IntAt(bytes, o + 4),
             _parameters_offset |-> IntAt(bytes, o + 8)]
      [] clazz = "FieldIdItem" ->
            [_class_index |-> ShortAt(bytes, o), _type_index |-> ShortAt(bytes, o + 2),
             _name_index |-> IntAt(bytes, o + 4)]
      [] clazz = "MethodIdItem" ->
            [_class_index |-> ShortAt(bytes, o), _proto_index |-> ShortAt(bytes, o + 2),
             _name_index |-> IntAt(bytes, o + 4)]
      [] clazz = "ClassDefItem" ->
            [_class_index |-> IntAt(bytes, o), _access_flags |-> IntAt(bytes, o + 4),
             _super_class_index |-> IntAt(bytes, o + 8),
             _interfaces_offset |-> IntAt(bytes, o + 12),
             _source_file_index |-> IntAt(bytes, o + 16),
             _annotations_offset |-> IntAt(bytes, o + 20),
             _class_data_offset |-> IntAt(bytes, o + 24),
             _static_values_offset |-> IntAt(bytes, o + 28),
             _descriptor |-> None, _super_descriptor |-> None]

\* the id tables of the open parsers that hold records
LoadedTables ==
    {pc \in ParserIds \X IdSet :
        parsers[pc[1]].state = "open" /\ parsers[pc[1]].ids[pc[2]].kind = "lazy"}

\* C10: for every fixed-stride table loaded as count records starting at position o,
\* element i (0 <= i < count) is the record decoded from the bytes at o + i*stride,
\* whether or not the record class has been loaded before, and after the load the
\* cursor is at o + count*stride.
C10_FixedStrideTables ==
    \A pc \in LoadedTables :
        /\ parsers[pc[1]].ids[pc[2]].after
              = parsers[pc[1]].ids[pc[2]].origin + parsers[pc[1]].ids[pc[2]].n * Stride(pc[2])
        /\ \A i \in DOMAIN parsers[pc[1]].ids[pc[2]].elems :
              parsers[pc[1]].ids[pc[2]].elems[i]
                 = RecordAt(FileBytes(parsers[pc[1]].file), pc[2],
                            parsers[pc[1]].ids[pc[2]].origin + i * Stride(pc[2]))

\* No call gets past line 458 of find_junit4_tests: cdef.descriptor raises before it.
DescriptorNeverReturns == last.err # "lines 460-465"

\* value_arg and value_type of a header byte: its top 3 and its bottom 5 bits
ValueArg(header) == header \div 32
ValueType(header) == header % 32

\* the bytes of an encoded value after its header byte, when every one of them is 0:
\* an EncodedArray of size 0 is one byte, an EncodedAnnotation of type 0 and size 0 two
ValueLength(header) ==
    CASE ValueType(header) <= VALUE_ENUM -> ValueArg(header) + 1
      [] ValueType(header) = VALUE_ARRAY -> 1
      [] ValueType(header) = VALUE_ANNOTATION -> 2
      [] ValueType(header) = VALUE_NULL -> 0
      [] ValueType(header) = VALUE_BOOLEAN -> ValueArg(header)

\* C11: the EncodedValue decoder takes value_arg from the top 3 bits of its header
\* byte and value_type from the bottom 5, and consumes the payload value_type
\* determines (value_arg + 1 bytes for 0x00..0x1B, an EncodedArray for 0x1C, an
\* EncodedAnnotation for 0x1D, nothing for 0x1E, value_arg bytes for 0x1F): for every
\* header byte whose value is wholly in the file, it returns with the cursor exactly
\* at the end of that encoded value.
C11_EncodedValueCursor ==
    (/\ call.op = "EncodedValue"
     /\ Len(Input) >= 1 + ValueLength(Input[1]))
        => /\ ret.err = "none"
           /\ cursor = call.start + 1 + ValueLength(Input[1])

\* No call of EncodedValue.__init__ takes the branch of line 339.
AnnotationBranchNeverTaken == ret.err # "line 339"

\* the methods called on an open parser
Queries ==
    {"getitem", "find_classes_directly_inherited_from", "find_method_names",
     "find_junit3_tests", "find_junit4_tests"}

\* the world before any DexParser is constructed
FreshWorld ==
    [par |-> [p \in ParserIds |-> NoParser], size |-> [c \in ItemClasses |-> NoSize],
     tids |-> Unset, sids |-> Unset, log |-> <<>>, list |-> <<>>]

\* the world in which parser p, on file fd, is the only parser ever constructed
AloneWorld(p, fd) == [DexParser(FreshWorld, p, fd).w EXCEPT !.log = <<>>]

\* what method op of parser p returns in world w
Answer(w, op, p, arg) ==
    CASE op = "getitem" -> ref_getitem(w, Ref(p, arg[1]), arg[2])
      [] op = "find_classes_directly_inherited_from" ->
            find_classes_directly_inherited_from(w, p, arg)
      [] op = "find_method_names" -> find_method_names(w, p, ClassDefAt(w, p, arg))
      [] op = "find_junit3_tests" -> find_junit3_tests(w, p, arg)
      [] op = "find_junit4_tests" -> find_junit4_tests(w, p)

\* what the last call would have returned had its parser been the only one
AnswerAlone == Answer(AloneWorld(last.p, LastFile), last.op, last.p, last.arg)

\* C12: parser instances are independent: whatever parsers have been constructed, the
\* first call made on parser P resolves through P's own tables and P's own byte
\* stream, so it raises or returns the same, and seeks the same positions of the same
\* stream, as if P were the only parser ever created.
C12_ParsersIndependent ==
    (last.op \in Queries /\ ncalls = 1)
        => /\ last.err = AnswerAlone.err
           /\ last.err = "none" => last.val = AnswerAlone.val
           /\ last.seeks = AnswerAlone.w.log

\* the parsers open on the DEX of the last call
OnSameDex(q) ==
    parsers[q].state = "open" /\ FileBytes(parsers[q].file) = FileBytes(LastFile)

\* what find_junit3_tests(), called next on parser q, does
NextDefault(q) == find_junit3_tests(World, q, defaultDescriptors)

\* The list that is find_junit3_tests' default argument is never changed by a call.
DefaultDescriptorsKept == defaultDescriptors = DEFAULT_DESCRIPTORS

\* Two calls find_junit3_tests() that both return, on the same DEX, return the same set.
ReturnedSetsAgree ==
    (last.op = "find_junit3_tests()" /\ last.err = "none")
        => \A q \in ParserIds :
              (OnSameDex(q) /\ NextDefault(q).err = "none")
                  => NextDefault(q).val.tests = last.val.tests

\* C13: find_junit3_tests() with its default descriptors is repeatable: every such
\* call, on whichever parser, is handed exactly the built-in descriptors (no call
\* changes the default list), and after any such call the next one on the same DEX,
\* on the same or on another parser, ends the same way: it returns if and only if the
\* call before returned, and then returns the same set of tests.
C13_DefaultCallsRepeatable ==
    /\ defaultDescriptors = DEFAULT_DESCRIPTORS
    /\ last.op = "find_junit3_tests()"
          => /\ last.arg = DEFAULT_DESCRIPTORS
             /\ \A q \in ParserIds :
                   OnSameDex(q)
                       => /\ (NextDefault(q).err = "none") <=> (last.err = "none")
                          /\ last.err = "none"
                                => NextDefault(q).val.tests = last.val.tests

=============================================================================
